---- MODULE Spec2Model ----
(***************************************************************************)
(* Model of torn-key-pool's PostgreSQL key storage                         *)
(* (src/torn-key-pool/src/postgres.rs): PgKeyPoolStorage::acquire_key and   *)
(* PgKeyPoolStorage::flag_key, called by concurrent tasks against one       *)
(* api_keys table.                                                          *)
(*                                                                          *)
(* acquire_key is an async function: each await is a point where other      *)
(* tasks run, so one call is modelled by the steps acquire_key / Retry      *)
(* (pool.begin and "set transaction isolation level serializable" of the    *)
(* first and of a later attempt), Query (the statement takes its snapshot   *)
(* and evaluates the CTE), LockRow (the FOR UPDATE row lock and the update) *)
(* and Commit / CommitConflict (tx.commit); a caller at "sleep" is inside   *)
(* random_sleep after SQLSTATE 40001.                                       *)
(*                                                                          *)
(* Time is counted in ticks; now() of a transaction is the clock at its     *)
(* Begin, as in PostgreSQL.                                                 *)
(*                                                                          *)
(* Spec is the pool in use: tasks calling acquire_key for any domain and    *)
(* flag_key for the keys they got. The other specifications let every task  *)
(* call acquire_key once: SpecFair with fair scheduling, SpecFaults with    *)
(* failing awaits, SpecDeadline with callers' deadlines passing, SpecStore  *)
(* from a database that may lack the table, with initialise.                *)
(***************************************************************************)
EXTENDS Integers, Sequences, FiniteSets

\* ---------------------------------------------------------------- bounds
NumKeys == 2          \* rows the api_keys table may hold (ids 1..NumKeys)
NumCallers == 2       \* concurrent tasks calling acquire_key and flag_key
MaxCalls == 3         \* acquire_key calls made during a run, over all tasks
limit == 2            \* PgKeyPoolStorage.limit, the configured uses per window
MaxTicks == 1         \* clock ticks that may pass during a run
TicksPerMinute == 4   \* resolution of the clock: ticks in one minute
MaxInitialise == 2    \* initialise calls made during a run

\* ------------------------------------------------------- program constants
MinutesPerHour == 60  \* extract(minute from ...) yields 0..59

KeyIds == 1..NumKeys
Callers == 1..NumCallers

Null == -1            \* SQL NULL / Option::None of faction_id
NoRow == [id |-> 0]   \* a deleted (absent) row of api_keys
NoTable == <<>>       \* a database that holds no relation api_keys
NoKey == [id |-> 0]   \* the CTE "key" when it selected no row

\* ------------------------------------------------------------- KeyDomain
Public == [type |-> "Public", id |-> 0]
User(id) == [type |-> "User", id |-> id]
Faction(id) == [type |-> "Faction", id |-> id]

\* The domains the callers ask for.
Domains == {Public, User(1), Faction(1)}

\* ----------------------------------------------------------------- PgKey
\* The immutable columns of the row with a given id: odd ids own a faction
\* key usable for both domains, even ids are neither user nor faction keys.
PgKey(id, uses, last_used) ==
    [id |-> id,
     user_id |-> id,
     faction_id |-> IF id % 2 = 1 THEN 1 ELSE Null,
     key |-> id,
     uses |-> uses,
     user |-> (id % 2 = 1),
     faction |-> (id % 2 = 1),
     last_used |-> last_used]

\* ------------------------------------------------------------------ time
Minute(t) == t \div TicksPerMinute

\* extract(minute from t): the minute of the hour.
ExtractMinute(t) == Minute(t) % MinutesPerHour

\* The clock values a run may start at: inside the first minute, at its last
\* tick, and one hour after its start.
StartClocks == {2, TicksPerMinute - 1, TicksPerMinute * MinutesPerHour}

\* last_used of the rows at the start (all inside the first minute).
InitLastUsed == {0, 1}

VARIABLES
    api_keys,   \* the committed table: KeyIds -> PgKey or NoRow
    clock,      \* the database server's clock, in ticks
    ticks,      \* ticks passed since the start
    before,     \* the table as seeded at the start (as test_concurrent reads it)
    pc,         \* each caller's position in acquire_key / flag_key
    domain,     \* each caller's KeyDomain argument
    now,        \* now() of each caller's open transaction
    snapshot,   \* the committed updates each open transaction's snapshot holds
    key,        \* the row the CTE "key" of each caller's statement selected
    result,     \* what each caller's last acquire_key call returned
    flagged,    \* what flag_key returned to each caller
    calls,      \* acquire_key calls made so far, per kind of domain
    acquired,   \* updates committed so far (the calls that returned a key)
    since,      \* the clock when the first transaction began (0: none yet)
    returned,   \* per key, the uses values returned since its counter's reset
    initialised, \* what the initialise calls made so far returned, in order
    expired,    \* the callers whose deadline fired during their open call
    aborted     \* the row each caller's last attempt had picked when it
                \* failed with a conflict (NoKey: none in this call)

vars == <<api_keys, clock, ticks, before, pc, domain, now, snapshot, key,
          result, flagged, calls, acquired, since, returned, initialised,
          expired, aborted>>

DomainTypes == {"Public", "User", "Faction"}
TotalCalls == calls["Public"] + calls["User"] + calls["Faction"]

NoResult == [type |-> "None"]
Ok(k) == [type |-> "Key", key |-> k]
Unavailable(d) == [type |-> "Unavailable", domain |-> d]
Pg(code) == [type |-> "Pg", code |-> code]

\* ------------------------------------------------- the domain predicate
Tok(t, a) == [tok |-> t, arg |-> a]

\* Faulty variant: no where clause for any domain.
PredicateIgnoringDomain(d) == <<>>

\* format!("where and user_id={} and user", id) and its siblings, as tokens.
predicate(d) ==
    CASE d.type = "Public" -> <<>>
      [] d.type = "User" ->
            <<Tok("where", 0), Tok("and", 0), Tok("user_id=", d.id),
              Tok("and", 0), Tok("user", 0)>>
      [] d.type = "Faction" ->
            <<Tok("where", 0), Tok("and", 0), Tok("faction_id=", d.id),
              Tok("and", 0), Tok("faction", 0)>>

Conditions == {"user_id=", "faction_id=", "user", "faction"}

\* PostgreSQL's grammar for the fragment: nothing, or "where" followed by
\* conditions separated by "and".
WellFormed(p) ==
    \/ p = <<>>
    \/ /\ Len(p) >= 2
       /\ Len(p) % 2 = 0
       /\ p[1].tok = "where"
       /\ \A i \in 2..Len(p) :
             IF i % 2 = 0 THEN p[i].tok \in Conditions ELSE p[i].tok = "and"

\* An unquoted user is the session user (type name), not the column "user":
\* it is no boolean argument of AND.
WellTyped(p) == \A i \in 1..Len(p) : p[i].tok # "user"

\* SQLSTATE the statement fails with for a predicate, "" when it runs.
PredicateError(p) ==
    IF ~WellFormed(p) THEN "42601"
    ELSE IF ~WellTyped(p) THEN "42804"
    ELSE ""

\* SQLSTATE the statement of acquire_key fails with on a database, "" when
\* it runs: the text is parsed (42601), then the relation is looked up
\* (42P01, undefined_table), then the where clause is typed.
StatementError(table, p) ==
    IF ~WellFormed(p) THEN "42601"
    ELSE IF table = NoTable THEN "42P01"
    ELSE PredicateError(p)

\* A row satisfies a well-formed, well-typed predicate.
Matches(row, p) ==
    \A i \in 1..Len(p) :
        CASE p[i].tok = "user_id=" -> row.user_id = p[i].arg
          [] p[i].tok = "faction_id=" -> row.faction_id = p[i].arg
          [] p[i].tok = "faction" -> row.faction
          [] OTHER -> TRUE

\* ------------------------------------------------------ the statement
\* case when extract(minute from last_used)=extract(minute from now())
\*      then uses else 0::smallint end
CaseUses(row, t) ==
    IF ExtractMinute(row.last_used) = ExtractMinute(t) THEN row.uses ELSE 0

\* The else branch of that case: the row's counter starts again from 0.
CounterReset(row, t) == ExtractMinute(row.last_used) # ExtractMinute(t)

\* from api_keys {predicate}: the rows of a table the CTE ranges over.
FromApiKeys(table, p) ==
    {k \in KeyIds : table[k] # NoRow /\ Matches(table[k], p)}

\* Faulty variant: order by last_used desc limit 1.
OrderByLastUsedDescLimit1(table, ids) ==
    {k \in ids : \A j \in ids : table[k].last_used >= table[j].last_used}

\* order by last_used asc limit 1: the candidates for the first row (rows
\* with equal last_used come in no defined order).
OrderByLastUsedLimit1(table, ids) ==
    {k \in ids : \A j \in ids : table[k].last_used <= table[j].last_used}

\* Faulty variant: key.uses <= $1.
AtMostLimit(row, t) == CaseUses(row, t) <= limit

\* Faulty variant: key.uses + 1 < $1.
StrictlyUnderLimit(row, t) == CaseUses(row, t) + 1 < limit

\* key.uses < $1 of the update's where clause.
UnderLimit(row, t) == CaseUses(row, t) < limit

\* update api_keys set uses = key.uses + 1, last_used = now()
Updated(row, t) ==
    [row EXCEPT !.uses = CaseUses(row, t) + 1, !.last_used = t]

\* A row written since the statement's snapshot read it (40001: could not
\* serialize access due to concurrent update / delete).
ConcurrentlyUpdated(seen, current) == current # seen

\* The row lock another caller's open transaction holds.
LockedByOther(c, k) ==
    \E o \in Callers \ {c} : pc[o] = "commit" /\ key[o].id = k

\* match code { 2 | 10 | 13 => ... } of flag_key.
Codes == {2, 5, 10, 13}

\* Faulty variant: a range pattern 2..=13.
DeletesKeyRange(code) == code \in 2..13

DeletesKey(code) == code \in {2, 10, 13}

\* --------------------------------------------------------------- Init
\* The rows a table may hold under an id at the start.
SeedRows(k) ==
    {NoRow} \cup {PgKey(k, u, l) : u \in 0..limit, l \in InitLastUsed}

\* The tables filled out of band.
SeedTables ==
    {t \in [KeyIds -> UNION {SeedRows(k) : k \in KeyIds}] :
        \A k \in KeyIds : t[k] \in SeedRows(k)}

\* A database in one of the given states; nobody has called yet.
Start(tables) ==
    /\ api_keys \in tables
    /\ clock \in StartClocks
    /\ ticks = 0
    /\ before = api_keys
    /\ pc = [c \in Callers |-> "idle"]
    /\ domain = [c \in Callers |-> Public]
    /\ now = [c \in Callers |-> 0]
    /\ snapshot = [c \in Callers |-> 0]
    /\ key = [c \in Callers |-> NoKey]
    /\ result = [c \in Callers |-> NoResult]
    /\ flagged = [c \in Callers |-> "none"]
    /\ calls = [t \in DomainTypes |-> 0]
    /\ acquired = 0
    /\ since = 0
    /\ returned = [k \in KeyIds |-> {}]
    /\ initialised = <<>>
    /\ expired = {}
    /\ aborted = [c \in Callers |-> NoKey]

\* The table was created by initialise and filled out of band.
Init == Start(SeedTables)

\* ------------------------------------------------------------ acquire_key
\* self.pool.begin() and "set transaction isolation level serializable":
\* the transaction's now() is fixed here, its snapshot is not taken yet.
BeginTx(c) ==
    /\ pc' = [pc EXCEPT ![c] = "query"]
    /\ now' = [now EXCEPT ![c] = clock]
    /\ since' = IF since = 0 THEN clock ELSE since
    /\ UNCHANGED <<api_keys, clock, ticks, before, snapshot, key, acquired,
                   returned, initialised, expired>>

\* A task that is not inside a call calls acquire_key(d): the predicate is
\* built and the first attempt begins its transaction.
acquire_key(c, d) ==
    /\ pc[c] \in {"idle", "done", "flagged"}
    /\ TotalCalls < MaxCalls
    /\ domain' = [domain EXCEPT ![c] = d]
    /\ calls' = [calls EXCEPT ![d.type] = @ + 1]
    /\ result' = [result EXCEPT ![c] = NoResult]
    /\ flagged' = [flagged EXCEPT ![c] = "none"]
    /\ aborted' = [aborted EXCEPT ![c] = NoKey]
    /\ BeginTx(c)

\* The loop's next attempt, when random_sleep has returned.
Retry(c) ==
    /\ pc[c] = "sleep"
    /\ UNCHANGED <<domain, calls, result, flagged, aborted>>
    /\ BeginTx(c)

\* The SQLSTATEs of the model; any other error value is a sqlx::Error that
\* is no database error.
SqlStates == {"40001", "42601", "42804", "42P01", "57P01"}

\* Faulty variant: no error is taken for a conflict.
NeverConflict(error) == FALSE

\* Faulty variant: every database error is taken for a conflict.
AnyDatabaseError(error) == error \in SqlStates

\* error.as_database_error() is Some(db_error) and its code() == "40001".
IsConflict(error) == error \in SqlStates /\ error = "40001"

\* The outcome of one attempt that ended without a commit: the match on
\* attempt's Err(error). 40001 sleeps and loops, anything else is returned.
AttemptFailed(c, code) ==
    /\ now' = [now EXCEPT ![c] = 0]
    /\ snapshot' = [snapshot EXCEPT ![c] = 0]
    /\ key' = [key EXCEPT ![c] = NoKey]
    /\ IF IsConflict(code)
       THEN /\ pc' = [pc EXCEPT ![c] = "sleep"]
            /\ aborted' = [aborted EXCEPT ![c] = key[c]]
            /\ UNCHANGED result
       ELSE /\ pc' = [pc EXCEPT ![c] = "done"]
            /\ result' = [result EXCEPT ![c] = Pg(code)]
            /\ UNCHANGED aborted
    /\ UNCHANGED <<api_keys, clock, ticks, before, domain, flagged, calls,
                   acquired, since,
                   returned, initialised, expired>>

\* Faulty variant: the loop retries inside the transaction of the failed
\* attempt, whose snapshot still shows the row that attempt read.
SnapshotOfAbortedAttempt(c) ==
    IF aborted[c] = NoKey \/ api_keys = NoTable THEN api_keys
    ELSE [api_keys EXCEPT ![aborted[c].id] = aborted[c]]

\* The table caller c's statement reads. Each turn of the loop begins a
\* transaction of its own, and a transaction's first statement takes its
\* snapshot: the table as committed when the statement starts.
StatementSnapshot(c) == api_keys

\* The statement starts: it is parsed, takes the transaction's snapshot (the
\* committed table) and the CTE picks its row from it.
Query(c) ==
    /\ pc[c] = "query"
    /\ LET p == predicate(domain[c])
           table == StatementSnapshot(c)
           ids == FromApiKeys(table, p)
       IN  IF StatementError(table, p) # ""
           THEN AttemptFailed(c, StatementError(table, p))
           ELSE /\ \/ /\ ids = {}
                      /\ key' = [key EXCEPT ![c] = NoKey]
                   \/ \E k \in OrderByLastUsedLimit1(table, ids) :
                         key' = [key EXCEPT ![c] = table[k]]
                /\ snapshot' = [snapshot EXCEPT ![c] = acquired]
                /\ pc' = [pc EXCEPT ![c] = "lock"]
                /\ UNCHANGED <<api_keys, clock, ticks, before, domain, now,
                               result, flagged, calls, acquired, since,
                               returned, initialised, expired, aborted>>

\* What the update ... returning yields for the locked row: the new row, or
\* no row when key.uses < $1 fails or the CTE was empty.
Returning(c) ==
    IF key[c] # NoKey /\ UnderLimit(key[c], now[c])
    THEN Updated(key[c], now[c])
    ELSE NoKey

\* Serializable snapshot isolation lets only one of two overlapping
\* transactions that both read the table and update a row of it commit: an
\* updating transaction fails with 40001 once another update has been
\* committed since its snapshot.
ReadWriteConflict(c) ==
    Returning(c) # NoKey /\ acquired # snapshot[c]

\* Faulty variant: an isolation level that detects no conflict.
NoSerializationFailure(c) == FALSE

\* Faulty variant: every transaction that picked a row is failed.
SpuriousSerializationFailure(c) == key[c] # NoKey

\* The transaction of caller c, which picked a row, cannot be serialized:
\* PostgreSQL fails its statement or its commit with SQLSTATE 40001.
SerializationFailure(c) ==
    /\ key[c] # NoKey
    /\ \/ ConcurrentlyUpdated(key[c], api_keys[key[c].id])
       \/ ReadWriteConflict(c)

\* FOR UPDATE and the update: the statement locks the row it picked, waiting
\* while another transaction holds the lock, and fails with 40001 when the
\* row was written since the snapshot. With no row picked there is nothing to
\* lock.
LockRow(c) ==
    /\ pc[c] = "lock"
    /\ IF key[c] = NoKey
       THEN /\ pc' = [pc EXCEPT ![c] = "commit"]
            /\ UNCHANGED <<api_keys, clock, ticks, before, domain, now,
                           snapshot, key, result, flagged, calls, acquired,
                           since, returned, initialised, expired, aborted>>
       ELSE /\ ~LockedByOther(c, key[c].id)
            /\ IF SerializationFailure(c)
               THEN AttemptFailed(c, "40001")
               ELSE /\ pc' = [pc EXCEPT ![c] = "commit"]
                    /\ UNCHANGED <<api_keys, clock, ticks, before, domain, now,
                                   snapshot, key, result, flagged, calls,
                                   acquired, since,
                                   returned, initialised, expired, aborted>>

\* Faulty variant: the join condition api_keys.id=key.id is missing, and
\* the update sets uses and last_used of every row.
UpdateWithoutJoin(table, new) ==
    [k \in KeyIds |->
        IF table[k] = NoRow THEN NoRow
        ELSE [table[k] EXCEPT !.uses = new.uses,
                              !.last_used = new.last_used]]

\* update api_keys set ... from key where api_keys.id=key.id: the table with
\* the one row of that id replaced.
UpdateApiKeys(table, new) == [table EXCEPT ![new.id] = new]

\* Faulty variant: a key whose update took its last use in the window is
\* reported as Unavailable, after the update was committed.
UnavailableWhenExhausted(new, d) ==
    IF new = NoKey \/ new.uses >= limit THEN Unavailable(d) ELSE Ok(new)

\* key.ok_or(PgStorageError::Unavailable(domain))
ok_or(new, d) == IF new = NoKey THEN Unavailable(d) ELSE Ok(new)

\* The server commits caller c's transaction: the update becomes visible
\* and the row lock is released. The call ends with res; handed tells
\* whether the caller receives the row.
Committed(c, res, handed) ==
    /\ ~SerializationFailure(c)
    /\ LET new == Returning(c)
       IN  /\ api_keys' = IF new = NoKey THEN api_keys
                          ELSE UpdateApiKeys(api_keys, new)
           /\ acquired' = IF new = NoKey THEN acquired ELSE acquired + 1
           /\ returned' = IF new = NoKey THEN returned
                          ELSE [returned EXCEPT ![new.id] =
                                   (IF CounterReset(key[c], now[c])
                                    THEN {} ELSE @)
                                   \cup (IF handed THEN {new.uses} ELSE {})]
    /\ result' = [result EXCEPT ![c] = res]
    /\ pc' = [pc EXCEPT ![c] = "done"]
    /\ now' = [now EXCEPT ![c] = 0]
    /\ snapshot' = [snapshot EXCEPT ![c] = 0]
    /\ key' = [key EXCEPT ![c] = NoKey]
    /\ UNCHANGED <<clock, ticks, before, domain, flagged, calls, since,
                   initialised, expired, aborted>>

\* tx.commit() succeeds and acquire_key returns
\* key.ok_or(Unavailable(domain)).
Commit(c) ==
    /\ pc[c] = "commit"
    /\ Committed(c, ok_or(Returning(c), domain[c]), TRUE)

\* tx.commit() fails with 40001: another transaction's update was committed
\* while this one held its row lock; its own update is rolled back.
CommitConflict(c) ==
    /\ pc[c] = "commit"
    /\ SerializationFailure(c)
    /\ AttemptFailed(c, "40001")

\* --------------------------------------------------------------- flag_key
\* Faulty variant: the delete matches no row.
DeleteNothing(table, id) == table

\* delete from api_keys where id=$1, executed on the pool in its own
\* transaction: the table without that row.
DeleteFromApiKeys(table, id) == [table EXCEPT ![id] = NoRow]

\* The caller reports a code for the key acquire_key gave it (PgKey is Clone:
\* it may report for the same key again). The delete waits for a row lock an
\* open transaction holds.
flag_key(c, code) ==
    /\ pc[c] \in {"done", "flagged"}
    /\ result[c].type = "Key"
    /\ IF DeletesKey(code)
       THEN /\ ~LockedByOther(c, result[c].key.id)
            /\ api_keys' = DeleteFromApiKeys(api_keys, result[c].key.id)
            /\ flagged' = [flagged EXCEPT ![c] = "true"]
       ELSE /\ flagged' = [flagged EXCEPT ![c] = "false"]
            /\ UNCHANGED api_keys
    /\ pc' = [pc EXCEPT ![c] = "flagged"]
    /\ UNCHANGED <<clock, ticks, before, domain, now, snapshot, key, result,
                   calls, acquired, since,
                   returned, initialised, expired, aborted>>

\* ------------------------------------------------------------- initialise
\* Faulty variant: CREATE TABLE without IF NOT EXISTS, which fails with
\* 42P07 (duplicate_table) when the relation exists.
CreateTable(table) ==
    IF table = NoTable
    THEN [table |-> [k \in KeyIds |-> NoRow], error |-> ""]
    ELSE [table |-> table, error |-> "42P07"]

\* CREATE TABLE IF NOT EXISTS api_keys (...): an empty table is created when
\* the database has no such relation; otherwise the statement does nothing
\* (and takes no lock on the relation).
CreateTableIfNotExists(table) ==
    IF table = NoTable
    THEN [table |-> [k \in KeyIds |-> NoRow], error |-> ""]
    ELSE [table |-> table, error |-> ""]

\* initialise executes the statement on the pool and returns Ok(()) or the
\* statement's error.
initialise ==
    /\ Len(initialised) < MaxInitialise
    /\ LET created == CreateTableIfNotExists(api_keys)
       IN  /\ api_keys' = created.table
           /\ before' = IF before = NoTable THEN created.table ELSE before
           /\ initialised' = Append(initialised,
                                    IF created.error = "" THEN "Ok"
                                    ELSE created.error)
    /\ UNCHANGED <<clock, ticks, pc, domain, now, snapshot, key, result,
                   flagged, calls, acquired, since, returned, expired,
                   aborted>>

\* ---------------------------------------------------------- storage faults
\* The errors a step of an attempt may meet: a conflict, another database
\* error (57P01, the server is shut down) and an error that is no database
\* error (sqlx::Error::Io, the connection is lost).
Errors == {"40001", "57P01", "Io"}

\* An await of the attempt (begin or set transaction at "query", the
\* statement at "query" or "lock", commit at "commit") returns an error and
\* the ? operator ends the attempt; the transaction, if begun, is rolled
\* back.
StorageFault(c, error) ==
    /\ pc[c] \in {"query", "lock", "commit"}
    /\ AttemptFailed(c, error)

\* The connection is lost after the server has committed and before the
\* client has read the answer: tx.commit() returns sqlx::Error::Io although
\* the transaction is committed.
CommitUnacknowledged(c) ==
    /\ pc[c] = "commit"
    /\ Committed(c, Pg("Io"), FALSE)

\* ------------------------------------------------------------------ time
Tick ==
    /\ ticks < MaxTicks
    /\ clock' = clock + 1
    /\ ticks' = ticks + 1
    /\ UNCHANGED <<api_keys, before, pc, domain, now, snapshot, key, result,
                   flagged, calls, acquired, since,
                   returned, initialised, expired, aborted>>

Next ==
    \/ \E c \in Callers, d \in Domains : acquire_key(c, d)
    \/ \E c \in Callers : Retry(c)
    \/ \E c \in Callers : Query(c)
    \/ \E c \in Callers : LockRow(c)
    \/ \E c \in Callers : Commit(c)
    \/ \E c \in Callers : CommitConflict(c)
    \/ \E c \in Callers, code \in Codes : flag_key(c, code)
    \/ Tick

Spec == Init /\ [][Next]_vars

\* ----------------------------------------------------- one call per task
\* A task that has not called yet calls acquire_key, as the tasks of
\* test_concurrent do.
FirstCall(c, d) == pc[c] = "idle" /\ acquire_key(c, d)

\* The steps caller c's open call takes.
Proceed(c) ==
    \/ Retry(c)
    \/ Query(c)
    \/ LockRow(c)
    \/ Commit(c)
    \/ CommitConflict(c)

NextOneCall ==
    \/ \E c \in Callers, d \in Domains : FirstCall(c, d)
    \/ \E c \in Callers : Retry(c)
    \/ \E c \in Callers : Query(c)
    \/ \E c \in Callers : LockRow(c)
    \/ \E c \in Callers : Commit(c)
    \/ \E c \in Callers : CommitConflict(c)
    \/ Tick

\* The tasks are scheduled fairly and the database answers: a call that can
\* take a step (random_sleep returning, a statement or a commit being
\* answered) takes one eventually. Nothing forces a task to call, or time to
\* pass.
SpecFair ==
    /\ Init
    /\ [][NextOneCall]_vars
    /\ \A c \in Callers : WF_vars(Proceed(c))

\* A store on a database that may lack the table: initialise is called at
\* any time, any number of times.
NextStore ==
    \/ initialise
    \/ NextOneCall

SpecStore == Start(SeedTables \cup {NoTable}) /\ [][NextStore]_vars

\* The deadline the caller of an open call has set for it passes while the
\* call is in random_sleep between two attempts. acquire_key takes no
\* deadline and no step of it looks at the time: the call goes on as before.
DeadlineFires(c) ==
    /\ pc[c] = "sleep"
    /\ c \notin expired
    /\ expired' = expired \cup {c}
    /\ UNCHANGED <<api_keys, clock, ticks, before, pc, domain, now, snapshot,
                   key, result, flagged, calls, acquired, since, returned,
                   initialised, aborted>>

NextDeadline ==
    \/ NextOneCall
    \/ \E c \in Callers : DeadlineFires(c)

SpecDeadline == Init /\ [][NextDeadline]_vars

\* The calls under storage faults.
NextFaults ==
    \/ NextOneCall
    \/ \E c \in Callers, error \in Errors : StorageFault(c, error)
    \/ \E c \in Callers : CommitUnacknowledged(c)

SpecFaults == Init /\ [][NextFaults]_vars

TypeOK ==
    /\ \A k \in KeyIds : api_keys[k] = NoRow \/ api_keys[k].id = k
    /\ pc \in [Callers -> {"idle", "query", "lock", "commit", "sleep",
                           "done", "flagged"}]

\* ========================================================================
\* Vocabulary of the claims (the specification's notions, not the code's).

\* The one-minute window a time lies in.
Window(t) == Minute(t)

\* A key's uses within the window of time t: its stored uses when it was
\* last used in that window, 0 otherwise.
WindowUses(row, t) ==
    IF Window(row.last_used) = Window(t) THEN row.uses ELSE 0

\* A key may serve a domain (ownership and flag, not the limit).
Eligible(row, d) ==
    \/ d.type = "Public"
    \/ d.type = "User" /\ row.user_id = d.id /\ row.user
    \/ d.type = "Faction" /\ row.faction_id = d.id /\ row.faction

InCall(c) == pc[c] \in {"query", "lock", "commit", "sleep"}
NoCallOpen == \A c \in Callers : ~InCall(c)

\* Every transaction so far began in the window the clock is in now.
OneWindow == since # 0 /\ Window(since) = Window(clock)

\* The run has stayed inside the hour in which the seeded keys were last used.
FirstHour == clock < TicksPerMinute * MinutesPerHour

Seeded == {k \in KeyIds : before[k] # NoRow}

\* No two keys of a table share their last_used: the order by last_used is
\* total and the row the statement picks does not depend on a tie.
DistinctLastUsed(table) ==
    \A j, k \in KeyIds :
        (j # k /\ table[j] # NoRow /\ table[k] # NoRow)
        => table[j].last_used # table[k].last_used
NoneDeleted == \A k \in Seeded : api_keys[k] # NoRow

\* A step in which caller c's acquire_key call returns.
Returns(c) == InCall(c) /\ pc'[c] = "done"

\* A step in which caller c's transaction commits / is rolled back.
Commits(c) == pc[c] = "commit" /\ pc'[c] = "done"
Aborts(c) == InCall(c) /\ pc[c] # "sleep" /\ pc'[c] = "sleep"

\* ------------------------------------------------------------------------
\* C1 (as stated): a pool of one key with stored uses b; when N
\* acquire_key(Public) calls, all inside one minute window and with
\* b + N <= limit, have all returned, each returned a key and the key's
\* stored uses is b + N.
C1_Original ==
    \A k \in KeyIds :
        ( /\ Seeded = {k}
          /\ NoneDeleted
          /\ NoCallOpen
          /\ OneWindow
          /\ calls["Public"] >= 1
          /\ before[k].uses + calls["Public"] <= limit )
        => /\ acquired = calls["Public"]
           /\ api_keys[k].uses = before[k].uses + calls["Public"]

\* C1 (amended): the same, provided b = 0 or the key was last used inside
\* that same minute window.
C1_SingleKeyCounts ==
    \A k \in KeyIds :
        ( /\ Seeded = {k}
          /\ NoneDeleted
          /\ NoCallOpen
          /\ OneWindow
          /\ calls["Public"] >= 1
          /\ before[k].uses + calls["Public"] <= limit
          /\ \/ before[k].uses = 0
             \/ Window(before[k].last_used) = Window(clock) )
        => /\ acquired = calls["Public"]
           /\ api_keys[k].uses = before[k].uses + calls["Public"]

\* Two Public calls overlapped on the only key, last used inside the window:
\* caller 1 began its last transaction before caller 2 and committed after
\* it, and the key counts both.
C1_Witness ==
    \E k \in KeyIds :
        /\ Seeded = {k}
        /\ NoneDeleted
        /\ OneWindow
        /\ calls["Public"] = 2
        /\ Window(before[k].last_used) = Window(clock)
        /\ \A c \in Callers : pc[c] = "done" /\ result[c].type = "Key"
        /\ result[1].key.last_used < result[2].key.last_used
        /\ result[1].key.uses > result[2].key.uses
        /\ api_keys[k].uses = before[k].uses + 2

\* ------------------------------------------------------------------------
\* C2: in every reachable state every key's stored uses is at most limit.
C2_UsesWithinLimit ==
    \A k \in KeyIds : api_keys[k] # NoRow => api_keys[k].uses <= limit

\* An allocation has brought a key to the limit.
C2_Witness ==
    \E k \in KeyIds :
        /\ api_keys[k] # NoRow
        /\ api_keys[k].uses = limit
        /\ api_keys[k] # before[k]

\* ------------------------------------------------------------------------
\* C3 (as stated): a call that returns a key changes exactly one key, raises
\* that key's uses within the current window by one and returns the new row;
\* an attempt that aborts on a conflict changes nothing.
C3_Original ==
    [][\A c \in Callers :
          /\ (Commits(c) /\ result'[c].type = "Key") =>
                \E k \in KeyIds :
                    /\ api_keys[k] # NoRow
                    /\ \A j \in KeyIds \ {k} : api_keys'[j] = api_keys[j]
                    /\ api_keys'[k].uses = WindowUses(api_keys[k], now[c]) + 1
                    /\ result'[c].key = api_keys'[k]
          /\ Aborts(c) => api_keys' = api_keys]_vars

\* ------------------------------------------------------------------------
\* C4 (as stated, for keys last used inside the current window at different
\* times): several keys, all below the limit at the start, with total
\* remaining capacity of at least N; N acquire_key(Public) calls inside that
\* window all return a key.
RemainingAtStart(k) == limit - WindowUses(before[k], clock)

RECURSIVE SumRemaining(_)
SumRemaining(ks) ==
    IF ks = {} THEN 0
    ELSE LET k == CHOOSE x \in ks : TRUE
         IN  RemainingAtStart(k) + SumRemaining(ks \ {k})

C4_Original ==
    ( /\ Cardinality(Seeded) >= 2
      /\ \A k \in Seeded : before[k].uses < limit
      /\ \A k \in Seeded : Window(before[k].last_used) = Window(clock)
      /\ DistinctLastUsed(before)
      /\ DistinctLastUsed(api_keys)
      /\ NoneDeleted
      /\ NoCallOpen
      /\ OneWindow
      /\ calls["Public"] >= 1
      /\ SumRemaining(Seeded) >= calls["Public"] )
    => acquired = calls["Public"]

\* ------------------------------------------------------------------------
\* C5 (as stated, within the first hour and for keys last used at different
\* times): an acquire_key(Public) attempt that commits while some key has
\* uses below limit in the current window returns a key, not Unavailable.
C5_Original ==
    [][\A c \in Callers :
          ( /\ Commits(c)
            /\ domain[c] = Public
            /\ FirstHour
            /\ DistinctLastUsed(api_keys)
            /\ \E k \in KeyIds : /\ api_keys[k] # NoRow
                                 /\ WindowUses(api_keys[k], now[c]) < limit )
          => result'[c].type = "Key"]_vars

\* ------------------------------------------------------------------------
\* C6 (as stated): a key last used in another one-minute window than the
\* transaction's time counts as unused: when it is the row the attempt
\* picked, the attempt returns it with uses 1 and stores uses 1.
C6_Original ==
    [][\A c \in Callers :
          ( /\ Commits(c)
            /\ key[c] # NoKey
            /\ Window(key[c].last_used) # Window(now[c]) )
          => /\ result'[c].type = "Key"
             /\ result'[c].key.uses = 1
             /\ api_keys'[key[c].id].uses = 1]_vars

\* ------------------------------------------------------------------------
\* C7 (as stated): when the pool holds a key of user u (faction g) flagged
\* for that domain and below the limit in the current window,
\* acquire_key(User(u)) (acquire_key(Faction(g))) returns such a key and
\* does not end in a storage error.
C7_Original ==
    [][\A c \in Callers :
          ( /\ Returns(c)
            /\ domain[c].type \in {"User", "Faction"}
            /\ \E k \in KeyIds : /\ api_keys[k] # NoRow
                                 /\ Eligible(api_keys[k], domain[c])
                                 /\ WindowUses(api_keys[k], now[c]) < limit
            /\ \A o \in Callers \ {c} : ~InCall(o) )
          => /\ result'[c].type = "Key"
             /\ Eligible(result'[c].key, domain[c])]_vars

C9_Original ==
    [][\A c \in Callers :
          ( /\ Returns(c)
            /\ \A k \in KeyIds :
                  (api_keys[k] # NoRow /\ Eligible(api_keys[k], domain[c]))
                  => WindowUses(api_keys[k], now[c]) >= limit )
          => result'[c] = Unavailable(domain[c])]_vars

\* ------------------------------------------------------------------------
\* C10: the row an attempt picks is, in the table the statement read, no
\* younger than any key eligible for the domain and below the limit, and
\* the key a call returns is the row its committing attempt picked.
C10_LruPreference ==
    [][\A c \in Callers :
          /\ (pc[c] = "query" /\ pc'[c] = "lock" /\ key'[c] # NoKey) =>
                \A j \in KeyIds :
                    ( /\ api_keys[j] # NoRow
                      /\ Eligible(api_keys[j], domain[c])
                      /\ WindowUses(api_keys[j], now[c]) < limit )
                    => key'[c].last_used <= api_keys[j].last_used
          /\ (Commits(c) /\ result'[c].type = "Key") =>
                /\ result'[c].key.id = key[c].id
                /\ key[c] = api_keys[key[c].id]]_vars

\* The first allocation of a run returned the older of two keys that were
\* both below the limit.
C10_Witness ==
    \E c \in Callers, j \in KeyIds :
        /\ result[c].type = "Key"
        /\ acquired = 1
        /\ j # result[c].key.id
        /\ api_keys[j] # NoRow
        /\ api_keys[j] = before[j]
        /\ before[j].uses < limit
        /\ before[result[c].key.id].last_used < before[j].last_used

\* ------------------------------------------------------------------------
\* C11 (as stated): flag_key with a code of 2, 10 or 13 for a key that is in
\* the pool deletes it and returns true; called for a key that is already
\* absent it changes nothing and returns false.
C11_Original ==
    [][\A c \in Callers, code \in {2, 10, 13} :
          flag_key(c, code) =>
              IF api_keys[result[c].key.id] # NoRow
              THEN /\ api_keys'[result[c].key.id] = NoRow
                   /\ flagged'[c] = "true"
              ELSE /\ api_keys' = api_keys
                   /\ flagged'[c] = "false"]_vars

\* ------------------------------------------------------------------------
\* C12: a flag_key call with a code of 2, 10 or 13 leaves no row with the
\* key's id and changes no other row; a row that is absent stays absent; and
\* every key a call returns is a row the table held when the call's
\* transaction committed. Hence no call that starts after the flag_key has
\* returned (nor any that returns after it) yields a key with that id.
C12_DeletedStaysDeleted ==
    [][/\ \A c \in Callers, code \in {2, 10, 13} :
             flag_key(c, code) =>
                 /\ api_keys'[result[c].key.id] = NoRow
                 /\ \A j \in KeyIds \ {result[c].key.id} :
                        api_keys'[j] = api_keys[j]
       /\ \A k \in KeyIds : api_keys[k] = NoRow => api_keys'[k] = NoRow
       /\ \A c \in Callers :
             (Commits(c) /\ result'[c].type = "Key")
             => api_keys[result'[c].key.id] # NoRow]_vars

\* The only key of the pool was returned once, with uses below the limit,
\* and deleted by flag_key; the other caller's call, whose statement ran
\* afterwards, found no key.
C12_Witness ==
    \E c \in Callers, o \in Callers, k \in KeyIds :
        /\ c # o
        /\ Seeded = {k}
        /\ api_keys[k] = NoRow
        /\ acquired = 1
        /\ pc[c] = "flagged" /\ flagged[c] = "true"
        /\ result[c].type = "Key" /\ result[c].key.id = k
        /\ result[c].key.uses < limit
        /\ pc[o] = "done" /\ result[o] = Unavailable(Public)

\* ------------------------------------------------------------------------
\* C13: flag_key with a code other than 2, 10 and 13 returns false and
\* leaves the table as it is: the same rows with the same fields.
C13_OtherCodesChangeNothing ==
    [][\A c \in Callers, code \in Codes \ {2, 10, 13} :
          flag_key(c, code) =>
              /\ flagged'[c] = "false"
              /\ api_keys' = api_keys]_vars

\* A caller has reported a code that is not 2, 10 or 13 for the key it
\* holds, and the key is in the pool as it was returned.
C13_Witness ==
    \E c \in Callers :
        /\ pc[c] = "flagged" /\ flagged[c] = "false"
        /\ result[c].type = "Key"
        /\ api_keys[result[c].key.id] = result[c].key

\* ------------------------------------------------------------------------
\* A step in which an await of caller c's attempt fails with an error:
\* an injected fault, the conflict PostgreSQL raises on the statement or on
\* the commit, the rejected statement, or the commit whose answer is lost.
FailsWith(c, error) ==
    \/ StorageFault(c, error)
    \/ error = "40001" /\ pc[c] = "lock" /\ key[c] # NoKey /\ LockRow(c)
                       /\ SerializationFailure(c)
    \/ error = "40001" /\ CommitConflict(c)
    \/ pc[c] = "query" /\ Query(c)
                       /\ StatementError(api_keys, predicate(domain[c])) = error
    \/ error = "Io" /\ CommitUnacknowledged(c)

\* C14 (under storage faults): no acquire_key call returns the conflict
\* 40001; whichever step of an attempt fails with it, the call does not
\* return but sleeps, and a sleeping call can always start a further attempt
\* (there is no count of attempts that stops it); what a call returns is a
\* key, Unavailable or an error other than the conflict.
C14_ConflictNeverSurfaces ==
    /\ [](\A c \in Callers :
             /\ result[c] # Pg("40001")
             /\ pc[c] \in {"done", "flagged"} =>
                    result[c].type \in {"Key", "Unavailable", "Pg"}
             /\ pc[c] = "sleep" => ENABLED Retry(c))
    /\ [][\A c \in Callers :
             /\ FailsWith(c, "40001") =>
                    pc'[c] = "sleep" /\ result'[c] = NoResult
             /\ pc[c] = "sleep" => pc'[c] \in {"sleep", "query"}]_vars

\* A call has met the conflict and sleeps without having returned, after
\* the other call has returned the only key.
C14_Witness ==
    \E c \in Callers, o \in Callers :
        /\ c # o
        /\ pc[c] = "sleep" /\ result[c] = NoResult
        /\ pc[o] = "done" /\ result[o].type = "Key"
        /\ Cardinality(Seeded) = 1

\* ------------------------------------------------------------------------
\* C15 (as stated, under storage faults): an attempt that fails with an
\* error other than the conflict makes acquire_key return that error at
\* once, as a storage error, without a further attempt, and leaves every
\* key as it was.
C15_Original ==
    [][\A c \in Callers, error \in (Errors \cup SqlStates) \ {"40001"} :
          FailsWith(c, error) =>
              /\ pc'[c] = "done"
              /\ result'[c] = Pg(error)
              /\ result'[c] # Unavailable(domain[c])
              /\ api_keys' = api_keys]_vars

\* C15 (amended): the same, except that the keys need not be unchanged when
\* the error is one that is no database error and was met by tx.commit().
C15_FatalErrorsReturned ==
    [][\A c \in Callers, error \in (Errors \cup SqlStates) \ {"40001"} :
          FailsWith(c, error) =>
              /\ pc'[c] = "done"
              /\ result'[c] = Pg(error)
              /\ result'[c] # Unavailable(domain[c])
              /\ (error \in SqlStates \/ pc[c] # "commit")
                 => api_keys' = api_keys]_vars

\* One call has returned a database error met while it held the row lock,
\* the other a lost connection, and the key both had picked is unchanged.
C15_Witness ==
    \E c \in Callers, o \in Callers :
        /\ pc[c] = "done" /\ result[c] = Pg("57P01")
        /\ pc[o] = "done" /\ result[o] = Pg("Io")
        /\ api_keys = before
        /\ \E k \in KeyIds : before[k] # NoRow

C17_SingleCallReturnsKey ==
    \A c \in Callers :
        ( /\ pc[c] \in {"done", "flagged"}
          /\ TotalCalls = 1
          /\ calls["Public"] = 1
          /\ Seeded # {}
          /\ \A k \in Seeded : before[k].uses < limit )
        => result[c].type = "Key"

\* The only call made has returned a key of a full pool that it brought from
\* limit - 1 to limit uses.
C17_Witness ==
    \E c \in Callers :
        /\ pc[c] = "done"
        /\ TotalCalls = 1
        /\ calls["Public"] = 1
        /\ Seeded = KeyIds
        /\ \A k \in Seeded : before[k].uses < limit
        /\ result[c].type = "Key"
        /\ result[c].key.uses = limit
        /\ before[result[c].key.id].uses = limit - 1

\* ------------------------------------------------------------------------
\* C18: an initialise call made when the table exists returns Ok and leaves
\* the table as it is (the same rows with the same fields), whatever the
\* number of calls made before and whatever the callers are doing.
C18_InitialiseIdempotent ==
    [][(initialise /\ api_keys # NoTable) =>
          /\ initialised'[Len(initialised')] = "Ok"
          /\ api_keys' = api_keys]_vars

\* initialise has been called as often as the run allows, all calls
\* returned Ok, and the table holds a key that a call has returned since the
\* first of them.
C18_Witness ==
    /\ Len(initialised) = MaxInitialise
    /\ \A i \in 1..Len(initialised) : initialised[i] = "Ok"
    /\ \E c \in Callers :
          /\ result[c].type = "Key"
          /\ api_keys[result[c].key.id] = result[c].key

\* ------------------------------------------------------------------------
\* C19 (as stated, for calls whose statement the database accepts): a call
\* whose caller's deadline has fired while it was open starts no further
\* attempt, and when it ends it holds no transaction and reports an error
\* that is neither Unavailable nor a key nor a storage error of the
\* database.
C19_Original ==
    [][\A c \in expired :
          /\ pc[c] = "sleep" => pc'[c] # "query"
          /\ (Returns(c) /\ PredicateError(predicate(domain[c])) = "") =>
                /\ now'[c] = 0 /\ key'[c] = NoKey
                /\ result'[c].type \notin {"Key", "Unavailable", "Pg"}]_vars

C22_Original ==
    \A c, o \in Callers :
        ( /\ pc[c] = "lock" /\ pc[o] = "lock"
          /\ domain[c] = domain[o]
          /\ api_keys = before )
        => key[c] = key[o]

\* ------------------------------------------------------------------------
\* C23: a call that returns a key changes in the table only that key's row,
\* and in that row only uses and last_used: the row's other columns are as
\* before, every other row is as before, and the table holds the same ids.
C23_OnlyUsesAndLastUsedChange ==
    [][\A c \in Callers :
          (Commits(c) /\ result'[c].type = "Key") =>
             LET k == result'[c].key.id
             IN  /\ api_keys[k] # NoRow
                 /\ api_keys'[k] # NoRow
                 /\ api_keys'[k] = [api_keys[k] EXCEPT
                                       !.uses = api_keys'[k].uses,
                                       !.last_used = api_keys'[k].last_used]
                 /\ result'[c].key = api_keys'[k]
                 /\ \A j \in KeyIds \ {k} : api_keys'[j] = api_keys[j]]_vars

\* A call has returned one key of a pool of two: its row differs from the
\* seeded one in uses and last_used, the other row is the seeded one.
C23_Witness ==
    \E c \in Callers, k, j \in KeyIds :
        /\ pc[c] = "done"
        /\ result[c].type = "Key"
        /\ result[c].key.id = k
        /\ j # k
        /\ api_keys[k] = result[c].key
        /\ before[k] # NoRow
        /\ api_keys[k].uses # before[k].uses
        /\ api_keys[k].last_used # before[k].last_used
        /\ api_keys[k].user_id = before[k].user_id
        /\ api_keys[j] # NoRow
        /\ api_keys[j] = before[j]

\* ------------------------------------------------------------------------
\* C24: the commit of a call that returns Unavailable leaves every row of
\* the table as it was, and so does every earlier step of a call (beginning,
\* reading, locking, failing on a conflict and sleeping): only a commit that
\* returns a key writes.
C24_UnavailableChangesNothing ==
    [][\A c \in Callers :
          /\ (Commits(c) /\ result'[c].type = "Unavailable") =>
                api_keys' = api_keys
          /\ (InCall(c) /\ pc'[c] # pc[c] /\ ~Commits(c)) =>
                api_keys' = api_keys]_vars

\* A call has returned Unavailable on a pool whose least recently used key
\* is at its limit, and the table is the seeded one.
C24_Witness ==
    \E c \in Callers, k \in KeyIds :
        /\ pc[c] = "done"
        /\ result[c] = Unavailable(Public)
        /\ api_keys = before
        /\ api_keys[k] # NoRow
        /\ api_keys[k].uses = limit
        /\ \A j \in KeyIds :
              api_keys[j] # NoRow =>
                 api_keys[k].last_used <= api_keys[j].last_used

\* ------------------------------------------------------------------------
\* C25 (as stated): no step moves a key's last_used backwards: a row that
\* is in the table before and after a step has a last_used at least as
\* large after it.
C25_Original ==
    [][\A k \in KeyIds :
          (api_keys[k] # NoRow /\ api_keys'[k] # NoRow) =>
             api_keys'[k].last_used >= api_keys[k].last_used]_vars
====
